---- MODULE Spec2Model ----
(***************************************************************************)
(* dbox: a terminal browser for a remote file store (Bubble Tea program).  *)
(*                                                                         *)
(* The module models the controller of src/unnamed/part_000 (Model, Init,  *)
(* Update, handleKeyPress) together with the commands of src/commands.go   *)
(* (loadFilesCmd, downloadFilesCmd) that it runs asynchronously.           *)
(*                                                                         *)
(* Bubble Tea runs every tea.Cmd in its own goroutine and feeds the        *)
(* message it returns to the single event loop, which calls Update.  The   *)
(* variable inflight is the bag of commands that have been issued and      *)
(* whose message has not been handled yet; a Deliver action is "the        *)
(* command finishes and Update handles its message".  Key presses are      *)
(* handled by Update in the same loop, in any interleaving with them.      *)
(*                                                                         *)
(* Paths are sequences of lower-case components: <<>> is "", <<"docs">>    *)
(* is "/docs", <<"docs","sub">> is "/docs/sub".  cursor and the members of *)
(* selected are 0-based as in the Go code; files is a 1-based sequence,    *)
(* so the entry under the cursor is files[cursor + 1].                     *)
(*                                                                         *)
(* Model.status, statusTime, errorTime, width and height are written by    *)
(* Update and read by View alone; they are not part of the state here, and *)
(* a StatusMsg is an event that changes nothing else.  The texts built     *)
(* with fmt.Sprintf are kept up to their fixed part.                       *)
(***************************************************************************)
EXTENDS Integers, Sequences, FiniteSets, Bags, TLC

VARIABLES
    currentPath,   \* Model.currentPath
    files,         \* Model.files
    cursor,        \* Model.cursor
    selected,      \* Model.selected (the set of keys of the map)
    folderCache,   \* Model.folderCache (a function whose DOMAIN is the key set)
    loading,       \* Model.loading
    error,         \* Model.error
    downloading,   \* Model.downloading
    inflight,      \* bag of commands issued, message not yet handled
    quit,          \* TRUE once the event loop has handled tea.Quit's message
    ev,            \* history: the event Update handled last
    lastListing,   \* history: per path, the last listing delivered since the
                   \* last cache clear
    store,         \* the remote store the program is run against
    dl,            \* the run of one downloadFilesCmd: its locals and position
    disk,          \* the local file system below the download directory
    load           \* one loadFilesCmd on its own: result.Entries and msg.Files

vars == <<currentPath, files, cursor, selected, folderCache, loading, error,
          downloading, inflight, quit, ev, lastListing, store, dl, disk, load>>

\* what the controller never writes
env == <<store, dl, disk, load>>

\* the fields of Model that Update and handleKeyPress read
model == <<currentPath, files, cursor, selected, folderCache, loading, error,
           downloading>>

----------------------------------------------------------------------------
(* Bounds of the model *)

\* at most this many commands are in flight at once
MaxInFlight == 2

\* at most this many entries are selected at once
MaxSelected == 1

\* a download batch that is followed step by step has at most this many
\* selected entries
MaxBatch == 2

\* a short listing handed to loadFilesCmd on its own has at most this many
\* entries
MaxShort == 3

----------------------------------------------------------------------------
(* Program constants *)

\* ctrl+u / ctrl+d move the cursor by five entries
PageStep == 5

----------------------------------------------------------------------------
(* Paths *)

\* "" : the root of the store
Root == <<>>

\* results of filepath.Dir that are not a path of the store
Dot == <<".">>
Slash == <<"/">>

\* filepath.Dir: drops the last component; "." for "", "/" for "/x"
Dir(p) ==
    IF p = Root THEN Dot
    ELSE IF Len(p) = 1 THEN Slash
    ELSE SubSeq(p, 1, Len(p) - 1)

----------------------------------------------------------------------------
(* Names and their order *)

\* strings.ToLower on the names of the store
ToLower(n) ==
    CASE n = "Docs"  -> "docs"
      [] n = "Sub"   -> "sub"
      [] n = "H.txt" -> "h.txt"
      [] n = "B.wav" -> "b.wav"
      [] n = "D.wav" -> "d.wav"
      [] n = "F.wav" -> "f.wav"
      [] OTHER       -> n

\* the lower-case names of the store in ascending byte order
LowerNames ==
    <<"a.wav", "b.txt", "b.wav", "c.wav", "d.wav", "docs", "e.wav", "f.wav",
      "g.txt", "g.wav", "h.txt", "old.txt", "sub">>

Rank(s) == CHOOSE i \in 1..Len(LowerNames) : LowerNames[i] = s

\* the < of Go strings, on lower-case names of the store
StrLess(a, b) == Rank(a) < Rank(b)

----------------------------------------------------------------------------
(* The remote store: what dbx.ListFolder returns *)

\* the store changes over time: a listing call sees one of these versions
Versions == {1, 2}

Meta(tag, name, parent) ==
    [tag |-> tag, Name |-> name, PathLower |-> Append(parent, ToLower(name))]

DocsPath == <<"docs">>
SubPath == <<"docs", "sub">>

\* result.Entries of ListFolder(path) when the call succeeds.  The store is
\* either a small tree (a folder in the root, a subfolder in it, which is
\* empty) whose folder /docs gains a file over time, or one flat folder of
\* seven files
Entries(path, v) ==
    CASE store = "tree" /\ path = Root ->
           <<Meta("file", "b.txt", Root), Meta("deleted", "old.txt", Root),
             Meta("folder", "Docs", Root)>>
      [] store = "tree" /\ path = DocsPath /\ v = 1 ->
           <<Meta("file", "g.txt", DocsPath), Meta("folder", "Sub", DocsPath)>>
      [] store = "tree" /\ path = DocsPath /\ v # 1 ->
           <<Meta("file", "H.txt", DocsPath), Meta("file", "g.txt", DocsPath),
             Meta("folder", "Sub", DocsPath)>>
      [] store = "flat" /\ path = Root ->
           <<Meta("file", "e.wav", Root), Meta("file", "B.wav", Root),
             Meta("file", "g.wav", Root), Meta("file", "a.wav", Root),
             Meta("file", "D.wav", Root), Meta("file", "c.wav", Root),
             Meta("file", "F.wav", Root)>>
      [] OTHER -> <<>>

Stores == {"tree", "flat"}

\* the folders of the store
Paths == {Root, DocsPath, SubPath}

----------------------------------------------------------------------------
(* loadFilesCmd *)

FileItem(name, path, isFolder) ==
    [Name |-> name, Path |-> path, IsFolder |-> isFolder]

\* the loop over result.Entries: deleted entries are skipped
RECURSIVE Convert(_)
Convert(raw) ==
    IF raw = <<>> THEN <<>>
    ELSE LET e == Head(raw)
             rest == Convert(Tail(raw))
         IN  IF e.tag = "file" THEN <<FileItem(e.Name, e.PathLower, FALSE)>> \o rest
             ELSE IF e.tag = "folder" THEN <<FileItem(e.Name, e.PathLower, TRUE)>> \o rest
             ELSE rest

\* the less function given to sort.Slice
Less(a, b) ==
    IF a.IsFolder # b.IsFolder THEN a.IsFolder
    ELSE StrLess(ToLower(a.Name), ToLower(b.Name))

\* one pass of the insertion sort: x moves left while it is less than its
\* left neighbour
RECURSIVE Insert(_, _)
Insert(sorted, x) ==
    IF sorted = <<>> THEN <<x>>
    ELSE LET last == sorted[Len(sorted)]
             front == SubSeq(sorted, 1, Len(sorted) - 1)
         IN  IF Less(x, last) THEN Append(Insert(front, x), last)
             ELSE Append(sorted, x)

\* sort.Slice on a slice of at most 12 elements is an insertion sort
RECURSIVE SortFiles(_)
SortFiles(items) ==
    IF items = <<>> THEN <<>>
    ELSE Insert(SortFiles(SubSeq(items, 1, Len(items) - 1)), items[Len(items)])

\* the Files of the FilesLoadedMsg for a successful ListFolder
LoadFiles(path, v) == SortFiles(Convert(Entries(path, v)))

----------------------------------------------------------------------------
(* Commands in flight *)

\* the func of Init that returns LoadingMsg{Loading: true}
LoadingCmd == [cmd |-> "loading"]

\* loadFilesCmd(path); stale is history: a cached navigation happened after
\* the command was issued
LoadCmd(path) == [cmd |-> "load", path |-> path, stale |-> FALSE]

\* a func that returns a StatusMsg (enter on a file, C, b, d without selection)
StatusCmd == [cmd |-> "status"]

\* the func of key "d" that returns DownloadMsg{Files: items}
DownloadMsgCmd(items) == [cmd |-> "dlmsg", items |-> items]

\* downloadFilesCmd(items, config)
BatchCmd(items) == [cmd |-> "batch", items |-> items]

\* tea.Quit
QuitCmd == [cmd |-> "quit"]

InFlight == BagToSet(inflight)

\* the number of commands in flight that are of kind cmd
RECURSIVE CountOf(_, _)
CountOf(S, cmd) ==
    IF S = {} THEN 0
    ELSE LET c == CHOOSE x \in S : TRUE
         IN  (IF c.cmd = cmd THEN CopiesIn(c, inflight) ELSE 0)
             + CountOf(S \ {c}, cmd)

\* listing fetches in flight
Loads == CountOf(InFlight, "load")

\* download batches in flight
Batches == CountOf(InFlight, "batch")

\* return m, cmd
Issue(c) ==
    /\ BagCardinality(inflight) < MaxInFlight
    /\ inflight' = inflight (+) SetToBag({c})

\* the command c has finished and its message has been handled
Done(c) == inflight (-) SetToBag({c})

\* history: every listing fetch in flight is now older than a cached navigation
MarkStale(B) ==
    LET mark(c) == IF c.cmd = "load" THEN [c EXCEPT !.stale = TRUE] ELSE c
        S == {mark(c) : c \in BagToSet(B)}
        n(c) == IF c \in BagToSet(B) THEN B[c] ELSE 0
    IN  [c \in S |-> IF c.cmd = "load"
                     THEN n(c) + n([c EXCEPT !.stale = FALSE])
                     ELSE B[c]]

----------------------------------------------------------------------------
(* initialModel and Init *)

NoCache == [p \in {} |-> <<>>]

NoError == ""

\* no downloadFilesCmd is followed step by step; fetched (the paths handed to
\* dbx.Download) and listed (per selected folder, what its expansion saw and
\* the folder whose ListFolder failed) are history
NoRun ==
    [pc |-> "idle", items |-> <<>>, i |-> 0, all |-> <<>>, downloaded |-> <<>>,
     skipped |-> <<>>, errors |-> <<>>, fetched |-> <<>>, listed |-> <<>>]

NoDisk == [files |-> [p \in {} |-> ""], dirs |-> {}]

\* no loadFilesCmd is followed on its own
NoLoad == [pc |-> "idle", raw |-> <<>>, out |-> <<>>]

\* initialModel, with the commands of Init in flight
Started ==
    /\ currentPath = Root
    /\ files = <<>>
    /\ cursor = 0
    /\ selected = {}
    /\ folderCache = NoCache
    /\ loading = FALSE
    /\ error = NoError
    /\ downloading = FALSE
    /\ inflight = SetToBag({LoadingCmd, LoadCmd(Root)})
    /\ quit = FALSE
    /\ ev = "init"
    /\ lastListing = NoCache

Init ==
    /\ Started
    /\ store \in Stores
    /\ dl = NoRun
    /\ disk = NoDisk
    /\ load = NoLoad

----------------------------------------------------------------------------
(* handleKeyPress *)

Keys ==
    {"q", "ctrl+c", "up", "k", "down", "j", "g", "G", "ctrl+u", "ctrl+d",
     "enter", " ", "esc", "R", "C", "b", "d", "x"}

Min(a, b) == IF a < b THEN a ELSE b

Max(a, b) == IF a > b THEN a ELSE b

\* return m, nil with m as it was
Ignore(how) ==
    /\ UNCHANGED <<model, inflight, lastListing>>
    /\ ev' = how

\* a case that only moves the cursor
MoveTo(c) ==
    /\ cursor' = c
    /\ UNCHANGED <<currentPath, files, selected, folderCache, loading, error,
                   downloading, inflight, lastListing>>
    /\ ev' = "move"

\* the cached branch without m.selected = make(map[int]bool)
ShowCachedKeepSelected(path) ==
    /\ files' = folderCache[path]
    /\ currentPath' = path
    /\ cursor' = 0
    /\ inflight' = MarkStale(inflight)
    /\ UNCHANGED <<selected, folderCache, loading, error, downloading, lastListing>>
    /\ ev' = "cached"

\* the cached branch of enter and esc
ShowCached(path) ==
    /\ files' = folderCache[path]
    /\ currentPath' = path
    /\ cursor' = 0
    /\ selected' = {}
    /\ inflight' = MarkStale(inflight)
    /\ UNCHANGED <<folderCache, loading, error, downloading, lastListing>>
    /\ ev' = "cached"

\* the uncached branch of enter and esc, and R
Fetch(path, how) ==
    /\ loading' = TRUE
    /\ Issue(LoadCmd(path))
    /\ UNCHANGED <<currentPath, files, cursor, selected, folderCache, error,
                   downloading, lastListing>>
    /\ ev' = how

\* a case that returns a command and leaves m as it was
Run(c, how) ==
    /\ Issue(c)
    /\ UNCHANGED <<model, lastListing>>
    /\ ev' = how

KeyQuit == Run(QuitCmd, "quit")

KeyUp == MoveTo(IF cursor > 0 THEN cursor - 1 ELSE cursor)

KeyDown == MoveTo(IF cursor < Len(files) - 1 THEN cursor + 1 ELSE cursor)

KeyTop == MoveTo(0)

KeyBottom == MoveTo(IF Len(files) > 0 THEN Len(files) - 1 ELSE cursor)

KeyPageUp == MoveTo(Max(0, cursor - PageStep))

\* ctrl+d without the min() that clamps to the last entry
KeyPageDownUnclamped ==
    MoveTo(IF Len(files) > 0 THEN cursor + PageStep ELSE cursor)

KeyPageDown ==
    MoveTo(IF Len(files) > 0 THEN Min(Len(files) - 1, cursor + PageStep)
           ELSE cursor)

\* enter without the lookup in m.folderCache
KeyEnterAlwaysFetch ==
    IF Len(files) > 0 /\ cursor < Len(files)
    THEN LET file == files[cursor + 1]
         IN  IF file.IsFolder
             THEN Fetch(file.Path, "fetch")
             ELSE Run(StatusCmd, "open")
    ELSE Ignore("none")

KeyEnter ==
    IF Len(files) > 0 /\ cursor < Len(files)
    THEN LET file == files[cursor + 1]
         IN  IF file.IsFolder
             THEN IF file.Path \in DOMAIN folderCache
                  THEN ShowCached(file.Path)
                  ELSE Fetch(file.Path, "fetch")
             ELSE Run(StatusCmd, "open")
    ELSE Ignore("none")

\* space without the check of m.cursor against len(m.files)
KeySpaceUnchecked ==
    /\ cursor \notin selected => Cardinality(selected) < MaxSelected
    /\ selected' = IF cursor \in selected
                   THEN selected \ {cursor}
                   ELSE selected \cup {cursor}
    /\ UNCHANGED <<currentPath, files, cursor, folderCache, loading, error,
                   downloading, inflight, lastListing>>
    /\ ev' = "toggle"

KeySpace ==
    IF Len(files) > 0 /\ cursor < Len(files)
    THEN /\ cursor \notin selected => Cardinality(selected) < MaxSelected
         /\ selected' = IF cursor \in selected
                        THEN selected \ {cursor}
                        ELSE selected \cup {cursor}
         /\ UNCHANGED <<currentPath, files, cursor, folderCache, loading, error,
                        downloading, inflight, lastListing>>
         /\ ev' = "toggle"
    ELSE Ignore("none")

\* the parent of esc: filepath.Dir, with "." and "/" turned into ""
Parent(path) ==
    LET parent == Dir(path)
    IN  IF parent = Dot \/ parent = Slash THEN Root ELSE parent

KeyEsc ==
    IF currentPath # Root
    THEN LET parent == Parent(currentPath)
         IN  IF parent \in DOMAIN folderCache
             THEN ShowCached(parent)
             ELSE Fetch(parent, "fetch")
    ELSE Ignore("none")

KeyReload == Fetch(currentPath, "reload")

\* C without m.folderCache = make(map[string][]FileItem)
KeyClearForgotten ==
    /\ lastListing' = NoCache
    /\ Issue(StatusCmd)
    /\ UNCHANGED <<currentPath, files, cursor, selected, folderCache, loading,
                   error, downloading>>
    /\ ev' = "clear"

KeyClear ==
    /\ folderCache' = NoCache
    /\ lastListing' = NoCache
    /\ Issue(StatusCmd)
    /\ UNCHANGED <<currentPath, files, cursor, selected, loading, error,
                   downloading>>
    /\ ev' = "clear"

KeyBrowse == Run(StatusCmd, "browse")

\* the sequences that list every member of S once: the orders in which the
\* range over the map m.selected can visit it
RECURSIVE Orders(_)
Orders(S) ==
    IF S = {} THEN {<<>>}
    ELSE UNION {{<<i>> \o o : o \in Orders(S \ {i})} : i \in S}

KeyDownload ==
    IF Cardinality(selected) > 0
    THEN \E order \in Orders({i \in selected : i < Len(files)}) :
            IF Len(order) > 0
            THEN Run(DownloadMsgCmd([n \in 1..Len(order) |-> files[order[n] + 1]]),
                     "download")
            ELSE Ignore("none")
    ELSE Run(StatusCmd, "nothing")

\* the switch on msg.String()
KeySwitch(k) ==
    CASE k \in {"q", "ctrl+c"} -> KeyQuit
      [] k \in {"up", "k"}     -> KeyUp
      [] k \in {"down", "j"}   -> KeyDown
      [] k = "g"               -> KeyTop
      [] k = "G"               -> KeyBottom
      [] k = "ctrl+u"          -> KeyPageUp
      [] k = "ctrl+d"          -> KeyPageDown
      [] k = "enter"           -> KeyEnter
      [] k = " "               -> KeySpace
      [] k = "esc"             -> KeyEsc
      [] k = "R"               -> KeyReload
      [] k = "C"               -> KeyClear
      [] k = "b"               -> KeyBrowse
      [] k = "d"               -> KeyDownload
      [] OTHER                 -> Ignore("none")

handleKeyPress(k) ==
    IF downloading THEN Ignore("ignored") ELSE KeySwitch(k)

----------------------------------------------------------------------------
(* Update *)

\* case tea.KeyMsg without the checks of m.downloading
KeyMsgUnguarded(k) ==
    /\ ~quit
    /\ KeySwitch(k)
    /\ UNCHANGED <<quit, env>>

\* case tea.KeyMsg
KeyMsg(k) ==
    /\ ~quit
    /\ IF downloading THEN Ignore("ignored") ELSE handleKeyPress(k)
    /\ UNCHANGED <<quit, env>>

\* case StatusMsg
StatusMsg(c) ==
    /\ ~quit
    /\ c.cmd = "status"
    /\ inflight' = Done(c)
    /\ UNCHANGED <<model, lastListing, quit, env>>
    /\ ev' = "StatusMsg"

\* case ErrorMsg that also drops the cache entry of the path that failed
ErrorMsgEvict(c) ==
    /\ ~quit
    /\ c.cmd = "load"
    /\ downloading' = FALSE
    /\ error' = "Failed to load files from path"
    /\ folderCache' = [p \in DOMAIN folderCache \ {c.path} |-> folderCache[p]]
    /\ inflight' = Done(c)
    /\ UNCHANGED <<currentPath, files, cursor, selected, loading, lastListing,
                   quit, env>>
    /\ ev' = "ErrorMsg"

\* case ErrorMsg that returns the failed loadFilesCmd again
ErrorMsgRetry(c) ==
    /\ ~quit
    /\ c.cmd = "load"
    /\ downloading' = FALSE
    /\ error' = "Failed to load files from path"
    /\ inflight' = Done(c) (+) SetToBag({LoadCmd(c.path)})
    /\ UNCHANGED <<currentPath, files, cursor, selected, folderCache, loading,
                   lastListing, quit, env>>
    /\ ev' = "ErrorMsg"

\* case ErrorMsg, for the ErrorMsg of a loadFilesCmd whose ListFolder failed
ErrorMsg(c) ==
    /\ ~quit
    /\ c.cmd = "load"
    /\ downloading' = FALSE
    /\ error' = "Failed to load files from path"
    /\ inflight' = Done(c)
    /\ UNCHANGED <<currentPath, files, cursor, selected, folderCache, loading,
                   lastListing, quit, env>>
    /\ ev' = "ErrorMsg"

\* case LoadingMsg
LoadingMsg(c) ==
    /\ ~quit
    /\ c.cmd = "loading"
    /\ loading' = TRUE
    /\ inflight' = Done(c)
    /\ UNCHANGED <<currentPath, files, cursor, selected, folderCache, error,
                   downloading, lastListing, quit, env>>
    /\ ev' = "LoadingMsg"

\* case FilesLoadedMsg without m.folderCache[msg.Path] = msg.Files
FilesLoadedMsgUncached(c, v) ==
    /\ ~quit
    /\ c.cmd = "load"
    /\ files' = LoadFiles(c.path, v)
    /\ currentPath' = c.path
    /\ cursor' = 0
    /\ selected' = {}
    /\ loading' = FALSE
    /\ lastListing' = [p \in DOMAIN lastListing \cup {c.path} |->
                          IF p = c.path THEN files' ELSE lastListing[p]]
    /\ inflight' = Done(c)
    /\ UNCHANGED <<folderCache, error, downloading, quit, env>>
    /\ ev' = "FilesLoadedMsg"

\* case FilesLoadedMsg, for a loadFilesCmd whose ListFolder saw version v
FilesLoadedMsg(c, v) ==
    /\ ~quit
    /\ c.cmd = "load"
    /\ files' = LoadFiles(c.path, v)
    /\ currentPath' = c.path
    /\ cursor' = 0
    /\ selected' = {}
    /\ loading' = FALSE
    /\ folderCache' = [p \in DOMAIN folderCache \cup {c.path} |->
                          IF p = c.path THEN files' ELSE folderCache[p]]
    /\ lastListing' = [p \in DOMAIN lastListing \cup {c.path} |->
                          IF p = c.path THEN files' ELSE lastListing[p]]
    /\ inflight' = Done(c)
    /\ UNCHANGED <<error, downloading, quit, env>>
    /\ ev' = "FilesLoadedMsg"

\* case DownloadMsg
DownloadMsg(c) ==
    /\ ~quit
    /\ c.cmd = "dlmsg"
    /\ downloading' = TRUE
    /\ inflight' = Done(c) (+) SetToBag({BatchCmd(c.items)})
    /\ UNCHANGED <<currentPath, files, cursor, selected, folderCache, loading,
                   error, lastListing, quit, env>>
    /\ ev' = "DownloadMsg"

\* case DownloadCompleteMsg
DownloadCompleteMsg(c) ==
    /\ ~quit
    /\ c.cmd = "batch"
    /\ downloading' = FALSE
    /\ inflight' = Done(c)
    /\ UNCHANGED <<currentPath, files, cursor, selected, folderCache, loading,
                   error, lastListing, quit, env>>
    /\ ev' = "DownloadCompleteMsg"

\* tea.Quit's message ends the event loop
QuitMsg(c) ==
    /\ ~quit
    /\ c.cmd = "quit"
    /\ quit' = TRUE
    /\ inflight' = Done(c)
    /\ UNCHANGED <<model, lastListing, env>>
    /\ ev' = "QuitMsg"

Next ==
    \/ \E k \in Keys : KeyMsg(k)
    \/ \E c \in InFlight : StatusMsg(c)
    \/ \E c \in InFlight : ErrorMsg(c)
    \/ \E c \in InFlight : LoadingMsg(c)
    \/ \E c \in InFlight : \E v \in Versions : FilesLoadedMsg(c, v)
    \/ \E c \in InFlight : DownloadMsg(c)
    \/ \E c \in InFlight : DownloadCompleteMsg(c)
    \/ \E c \in InFlight : QuitMsg(c)

Spec == Init /\ [][Next]_vars

----------------------------------------------------------------------------
(* The local file system *)

\* config.DownloadPath, created by EnsureDownloadPath before the program runs
DownloadDir == <<".dbox">>

\* filepath.Join(downloadDir, fileItem.Path)
LocalPath(path) == DownloadDir \o path

\* the path and the directories above it
Prefixes(path) == {SubSeq(path, 1, n) : n \in 1..Len(path)}

\* os.Stat(path) returns no error
Exists(d, path) == path \in DOMAIN d.files \/ path \in d.dirs

\* os.MkdirAll(path) can succeed: no file is in the way
CanMkdirAll(d, path) == \A q \in Prefixes(path) : q \notin DOMAIN d.files

\* the disk after a successful os.MkdirAll(path)
MkdirAll(d, path) == [d EXCEPT !.dirs = d.dirs \cup Prefixes(path)]

\* the disk after os.WriteFile(path) has written content
WriteFile(d, path, content) ==
    [d EXCEPT !.files = [q \in DOMAIN d.files \cup {path} |->
                            IF q = path THEN content ELSE d.files[q]]]

----------------------------------------------------------------------------
(* getAllFilesInFolder *)

NoFiles == [err |-> FALSE, files |-> <<>>]

\* return nil, err with the err of the ListFolder of path
Failed(path) == [err |-> TRUE, files |-> <<>>, at |-> path]

\* getAllFilesInFolder(dbx, path) when ListFolder sees version v of the store
\* and fails for the folders in failing; Walk is its loop over the entries
RECURSIVE getAllFilesInFolder(_, _, _), Walk(_, _, _)
getAllFilesInFolder(path, v, failing) ==
    IF path \in failing THEN Failed(path) ELSE Walk(Entries(path, v), v, failing)

Walk(raw, v, failing) ==
    IF raw = <<>> THEN NoFiles
    ELSE LET e == Head(raw)
             rest == Walk(Tail(raw), v, failing)
         IN  IF e.tag = "file"
             THEN IF rest.err THEN rest
                  ELSE [err |-> FALSE,
                        files |-> <<FileItem(e.Name, e.PathLower, FALSE)>>
                                     \o rest.files]
             ELSE IF e.tag = "folder"
             THEN LET sub == getAllFilesInFolder(e.PathLower, v, failing)
                  IN  IF sub.err THEN sub
                      ELSE IF rest.err THEN rest
                      ELSE [err |-> FALSE,
                            files |-> <<FileItem(e.Name, e.PathLower, TRUE)>>
                                         \o sub.files \o rest.files]
             ELSE rest

----------------------------------------------------------------------------
(* downloadFilesCmd, step by step *)

\* the controller is not followed while a batch is
Waiting == UNCHANGED <<model, inflight, quit, ev, lastListing, store, load>>

\* the item of the loop that dl.i points at
Item == IF dl.pc = "expand" THEN dl.items[dl.i] ELSE dl.all[dl.i]

\* continue: the loop goes on with the next item
Continue(run) == [run EXCEPT !.i = run.i + 1]

\* a failure that is not added to errors
WithErrorForgotten(run, what, name) == run

\* errors = append(errors, ...)
WithError(run, what, name) ==
    [run EXCEPT !.errors = Append(run.errors, <<what, name>>)]

\* one round of the loop that expands the folders of fileItems; after the
\* last one the loop over allFilesToDownload starts
Expand ==
    /\ dl.pc = "expand"
    /\ dl.i <= Len(dl.items)
    /\ \E v \in Versions, failing \in SUBSET Paths :
          LET listed == getAllFilesInFolder(Item.Path, v, failing)
              noted == [dl EXCEPT !.listed =
                           Append(dl.listed,
                                  [path |-> Item.Path, v |-> v,
                                   failed |-> IF listed.err THEN {listed.at}
                                              ELSE {}])]
              next == IF ~Item.IsFolder
                      THEN [dl EXCEPT !.all = Append(dl.all, Item)]
                      ELSE IF listed.err
                      THEN WithError(noted, "Failed to list folder", Item.Name)
                      ELSE [noted EXCEPT !.all = dl.all \o <<Item>> \o listed.files]
          IN  dl' = IF dl.i = Len(dl.items)
                    THEN [next EXCEPT !.pc = "files", !.i = 1]
                    ELSE Continue(next)
    /\ UNCHANGED disk
    /\ Waiting

\* one round of the loop over allFilesToDownload, for a folder
MakeFolder ==
    /\ dl.pc = "files"
    /\ dl.i <= Len(dl.all)
    /\ Item.IsFolder
    /\ \E ok \in BOOLEAN :
          IF ok /\ CanMkdirAll(disk, LocalPath(Item.Path))
          THEN /\ disk' = MkdirAll(disk, LocalPath(Item.Path))
               /\ dl' = Continue(dl)
          ELSE /\ disk' = disk
               /\ dl' = Continue(WithError(dl, "Failed to create folder", Item.Name))
    /\ Waiting

\* what can happen to a file that is not there yet: one of the calls fails
\* (os.WriteFile possibly after it has created the file), or none does
Outcomes == {"mkdir", "download", "read", "write", "partial", "ok"}

\* the part of a round after the os.Stat check: MkdirAll of the parent,
\* Download, io.ReadAll, os.WriteFile
Transfer(localPath) ==
    LET parentDir == Dir(localPath)
        made == MkdirAll(disk, parentDir)
        asked == [dl EXCEPT !.fetched = Append(dl.fetched, Item.Path)]
    IN  \E o \in Outcomes :
           IF o = "mkdir" \/ ~CanMkdirAll(disk, parentDir)
           THEN /\ dl' = Continue(WithError(dl, "Failed to create directory for",
                                            Item.Name))
                /\ disk' = disk
           ELSE IF o = "download"
           THEN /\ dl' = Continue(WithError(asked, "Failed to download", Item.Name))
                /\ disk' = made
           ELSE IF o = "read"
           THEN /\ dl' = Continue(WithError(asked, "Failed to read content of", Item.Name))
                /\ disk' = made
           ELSE IF o = "write"
           THEN /\ dl' = Continue(WithError(asked, "Failed to write", Item.Name))
                /\ disk' = made
           ELSE IF o = "partial"
           THEN /\ dl' = Continue(WithError(asked, "Failed to write", Item.Name))
                /\ disk' = WriteFile(made, localPath, "partial")
           ELSE /\ dl' = Continue([asked EXCEPT
                                      !.downloaded = Append(dl.downloaded, Item.Name)])
                /\ disk' = WriteFile(made, localPath, "remote")

\* a round for a file without the os.Stat check
FetchFileNoStat ==
    /\ dl.pc = "files"
    /\ dl.i <= Len(dl.all)
    /\ ~Item.IsFolder
    /\ Transfer(LocalPath(Item.Path))
    /\ Waiting

\* one round of the loop over allFilesToDownload, for a file
FetchFile ==
    /\ dl.pc = "files"
    /\ dl.i <= Len(dl.all)
    /\ ~Item.IsFolder
    /\ IF Exists(disk, LocalPath(Item.Path))
       THEN /\ dl' = Continue([dl EXCEPT !.skipped = Append(dl.skipped, Item.Name)])
            /\ disk' = disk
       ELSE Transfer(LocalPath(Item.Path))
    /\ Waiting

\* return DownloadCompleteMsg{downloaded, skipped, errors}
Complete ==
    /\ dl.pc = "files"
    /\ dl.i > Len(dl.all)
    /\ dl' = [dl EXCEPT !.pc = "done"]
    /\ UNCHANGED disk
    /\ Waiting

\* the entries of one listing that are selected, in the order of the range
\* over m.selected
BatchInputs ==
    UNION {LET listing == LoadFiles(path, v)
           IN  {[n \in 1..Len(order) |-> listing[order[n] + 1]] :
                   order \in UNION {Orders(S) :
                                S \in {T \in SUBSET (0..Len(listing) - 1) :
                                          Cardinality(T) \in 1..MaxBatch}}}
           : path \in Paths, v \in Versions}

\* the files of the tree store, as local paths
LocalFiles ==
    {LocalPath(<<"b.txt">>), LocalPath(<<"docs", "g.txt">>),
     LocalPath(<<"docs", "h.txt">>)}

\* the local paths that may be directories before the batch: those of the
\* folders of the tree store, and that of one of its files
LocalDirs ==
    {LocalPath(DocsPath), LocalPath(SubPath), LocalPath(<<"docs", "g.txt">>)}

\* the download directory before the batch: some files of earlier downloads,
\* the directories they are in, and possibly more directories
Disks ==
    {[files |-> [q \in x[1] |-> "local"],
      dirs |-> {DownloadDir} \cup UNION {Prefixes(Dir(q)) : q \in x[1]}
                  \cup UNION {Prefixes(q) : q \in x[2]}] :
        x \in {y \in (SUBSET LocalFiles) \X (SUBSET LocalDirs) : y[1] \cap y[2] = {}}}

InitDL ==
    /\ Started
    /\ store = "tree"
    /\ \E items \in BatchInputs : dl = [NoRun EXCEPT !.pc = "expand", !.items = items,
                                                     !.i = 1]
    /\ disk \in Disks
    /\ load = NoLoad

NextDL ==
    \/ Expand
    \/ MakeFolder
    \/ FetchFile
    \/ Complete

SpecDL == InitDL /\ [][NextDL]_vars

----------------------------------------------------------------------------
(* loadFilesCmd on its own, for any result.Entries *)

\* neither is less than the other: same group, same lower-case name
Tied(a, b) == ~Less(a, b) /\ ~Less(b, a)

\* seq with the entries at k and k + 1 exchanged
SwapAt(seq, k) ==
    [n \in 1..Len(seq) |->
        IF n = k THEN seq[k + 1] ELSE IF n = k + 1 THEN seq[k] ELSE seq[n]]

\* what sort.Slice can leave in fileItems.  Up to 12 elements it is the
\* insertion sort; above, the sort package partitions around a pivot and
\* promises no order among elements that compare equal ("not guaranteed to
\* be stable"): the result is in the order of less, with two tied
\* neighbours possibly exchanged
SortSlice(items) ==
    LET s == SortFiles(items)
    IN  IF Len(items) <= 12 THEN {s}
        ELSE {s} \cup {SwapAt(s, k) :
                          k \in {n \in 1..Len(s) - 1 : Tied(s[n], s[n + 1])}}

\* entries a short listing is made of: names that differ in case only, in
\* both groups, and a deleted entry
EntryPool ==
    {Meta("file", "B.wav", Root), Meta("file", "b.wav", Root),
     Meta("file", "a.wav", Root), Meta("folder", "Docs", Root),
     Meta("folder", "docs", Root), Meta("deleted", "old.txt", Root)}

ShortInputs == UNION {[1..n -> EntryPool] : n \in 0..MaxShort}

\* eleven entries with different names
LongBase ==
    <<Meta("file", "e.wav", Root), Meta("folder", "Docs", Root),
      Meta("file", "g.wav", Root), Meta("file", "a.wav", Root),
      Meta("file", "h.txt", Root), Meta("file", "D.wav", Root),
      Meta("file", "c.wav", Root), Meta("folder", "Sub", Root),
      Meta("file", "F.wav", Root), Meta("file", "g.txt", Root),
      Meta("file", "b.txt", Root)>>

\* seq with x put in after its first k entries
InsertAt(seq, k, x) == SubSeq(seq, 1, k) \o <<x>> \o SubSeq(seq, k + 1, Len(seq))

\* listings of thirteen entries: LongBase and, at any two places and in
\* either order, two files whose names differ in case only
LongInputs ==
    UNION {{InsertAt(InsertAt(LongBase, i, Meta("file", pair[1], Root)), j,
                     Meta("file", pair[2], Root)) :
               j \in (i + 1)..(Len(LongBase) + 1),
               pair \in {<<"B.wav", "b.wav">>, <<"b.wav", "B.wav">>}} :
           i \in 0..Len(LongBase)}

\* the function returned by loadFilesCmd, for a ListFolder that succeeds
loadFilesCmd ==
    /\ load.pc = "in"
    /\ \E fileItems \in SortSlice(Convert(load.raw)) :
          load' = [load EXCEPT !.pc = "out", !.out = fileItems]
    /\ UNCHANGED <<model, inflight, quit, ev, lastListing, store, dl, disk>>

InitLoad ==
    /\ Started
    /\ store = "flat"
    /\ dl = NoRun
    /\ disk = NoDisk
    /\ \E raw \in ShortInputs \cup LongInputs :
          load = [pc |-> "in", raw |-> raw, out |-> <<>>]

NextLoad == loadFilesCmd

SpecLoad == InitLoad /\ [][NextLoad]_vars

----------------------------------------------------------------------------
(* Claims *)

QuitKeys == {"q", "ctrl+c"}

\* the fields of Model that make up what the browser shows
shown == <<currentPath, files, cursor, selected>>

\* C1 (as stated): a listing result for path A that was requested before the
\* user navigated to a cached path B leaves currentPath, files, cursor and
\* selected as they are when it is delivered later.
C1_StaleResultDiscarded ==
    [][\A c \in InFlight : \A v \in Versions :
          (FilesLoadedMsg(c, v) /\ c.stale /\ c.path # currentPath)
              => UNCHANGED shown]_vars

\* C2: the cursor is 0 when files is empty and otherwise an index of files,
\* in every reachable state, and it is 0 right after every event that
\* replaces files (a cached navigation, a listing result).
C2_CursorInvariant ==
    /\ files = <<>> => cursor = 0
    /\ files # <<>> => 0 <= cursor /\ cursor <= Len(files) - 1
    /\ ev \in {"cached", "FilesLoadedMsg"} => cursor = 0

\* C2 witness: the cursor has been moved to the middle of the long listing,
\* five entries down from the top, where ctrl+d does not clamp.
C2_Witness ==
    /\ ev = "move"
    /\ Len(files) > PageStep + 1
    /\ cursor = PageStep

EnterTo(p) ==
    /\ ~downloading
    /\ Len(files) > 0 /\ cursor < Len(files)
    /\ files[cursor + 1].IsFolder
    /\ files[cursor + 1].Path = p
    /\ KeyMsg("enter")

\* esc in a folder whose parent is p, handled by the switch
EscTo(p) ==
    /\ ~downloading
    /\ currentPath # Root
    /\ Parent(currentPath) = p
    /\ KeyMsg("esc")

\* C4: when a listing has been delivered for path p and the cache has not
\* been cleared since, a navigation to p (enter on the folder p, esc in a
\* child of p) issues no listing fetch and shows exactly the last listing
\* delivered for p, with currentPath = p.
C4_CacheHit ==
    [][\A p \in DOMAIN lastListing :
          (EnterTo(p) \/ EscTo(p))
              => /\ files' = lastListing[p]
                 /\ currentPath' = p
                 /\ Loads' = Loads]_vars

\* C4 witness: a folder below the root has been entered from the cache and
\* shows the last listing delivered for it.
C4_Witness ==
    /\ ev = "cached"
    /\ currentPath = DocsPath
    /\ files = lastListing[DocsPath]

\* C5 (as stated): at most one listing fetch is in flight at any time.
C5_OneListingFetch == Loads <= 1

\* C6 (as stated): at most one download batch is in flight at any time, and
\* no batch is started while a listing fetch is in flight.
C6_OneDownloadBatch ==
    /\ Batches <= 1
    /\ ev = "DownloadMsg" => Loads = 0

\* C7: while downloading is set, a key other than a quit key leaves the model
\* and the commands in flight as they are: a step that changes either of
\* them in such a state is not the handling of such a key.
C7_InputSuppressed ==
    [][(downloading /\ ~UNCHANGED <<model, inflight>>)
          => \A k \in Keys \ QuitKeys : ~KeyMsg(k)]_vars

\* C7 witness: a key has been ignored while a batch is running.
C7_Witness ==
    /\ ev = "ignored"
    /\ downloading
    /\ Batches > 0

\* C8 (as stated): ctrl+c pressed while a download batch is in flight
\* produces the quit command.
C8_QuitDuringDownload ==
    [][(downloading /\ Batches > 0 /\ KeyMsg("ctrl+c"))
          => CopiesIn(QuitCmd, inflight') > 0]_vars

\* C9: the ErrorMsg of a failed listing fetch leaves currentPath, files,
\* cursor, selected and the cache as they are, records the error text, and
\* issues no new listing fetch.
C9_ListingFailure ==
    [][\A c \in InFlight :
          ErrorMsg(c)
              => /\ UNCHANGED <<shown, folderCache>>
                 /\ error' = "Failed to load files from path"
                 /\ Loads' = Loads - 1]_vars

\* C9 witness: a listing fetch has failed after a folder had been shown.
C9_Witness ==
    /\ ev = "ErrorMsg"
    /\ error # NoError
    /\ files # <<>>

\* C10: when the loop comes to a file whose local target path exists, it adds
\* the name to skipped, asks the remote store for nothing, leaves the disk as
\* it is, and adds nothing to downloaded or errors.
C10_SkipLaw ==
    [][(dl.pc = "files" /\ dl.i <= Len(dl.all) /\ ~Item.IsFolder
            /\ Exists(disk, LocalPath(Item.Path)))
          => /\ dl'.skipped = Append(dl.skipped, Item.Name)
             /\ dl'.fetched = dl.fetched
             /\ disk' = disk
             /\ dl'.downloaded = dl.downloaded
             /\ dl'.errors = dl.errors]_vars

\* C10 witness: a batch is over that has skipped a file and fetched another.
C10_Witness ==
    /\ dl.pc = "done"
    /\ dl.skipped # <<>>
    /\ dl.downloaded # <<>>
    /\ \E q \in DOMAIN disk.files : disk.files[q] = "local"

\* the file items of allFilesToDownload the loop has gone past
Processed == {n \in 1..Len(dl.all) : n < dl.i /\ ~dl.all[n].IsFolder}

\* the number of entries of seq that are name
RECURSIVE Count(_, _)
Count(seq, name) ==
    IF seq = <<>> THEN 0
    ELSE (IF Head(seq) = name THEN 1 ELSE 0) + Count(Tail(seq), name)

\* the names the entries of errors are about
ErrorNames == [n \in 1..Len(dl.errors) |-> dl.errors[n][2]]

\* the entries of errors that are about a file
FileErrors ==
    SelectSeq(dl.errors, LAMBDA e : e[1] \notin {"Failed to list folder",
                                                 "Failed to create folder"})

\* C11: a round for a file that is not there locally either records the file
\* in downloaded (the fetch and the write succeeded: the local file holds the
\* remote content) or adds exactly one entry, about that file, to errors; in
\* both cases the loop goes on with the next item.  So every file the loop
\* has gone past is in exactly one of downloaded, skipped and errors, and a
\* run that is not over can always take its next step, up to the one that
\* returns the DownloadCompleteMsg.
C11_FailureContained ==
    /\ [][(dl.pc = "files" /\ dl.i <= Len(dl.all) /\ ~Item.IsFolder
               /\ ~Exists(disk, LocalPath(Item.Path)))
             => /\ dl'.pc = "files" /\ dl'.i = dl.i + 1 /\ dl'.all = dl.all
                /\ dl'.skipped = dl.skipped
                /\ \/ /\ LocalPath(Item.Path) \in DOMAIN disk'.files
                      /\ disk'.files[LocalPath(Item.Path)] = "remote"
                      /\ dl'.downloaded = Append(dl.downloaded, Item.Name)
                      /\ dl'.errors = dl.errors
                   \/ /\ LocalPath(Item.Path) \in DOMAIN disk'.files
                            => disk'.files[LocalPath(Item.Path)] # "remote"
                      /\ dl'.downloaded = dl.downloaded
                      /\ Len(dl'.errors) = Len(dl.errors) + 1
                      /\ SubSeq(dl'.errors, 1, Len(dl.errors)) = dl.errors
                      /\ dl'.errors[Len(dl'.errors)][2] = Item.Name]_vars
    /\ [](dl.pc \in {"files", "done"}
             => /\ \A n \in Processed :
                      Count(dl.downloaded, dl.all[n].Name)
                         + Count(dl.skipped, dl.all[n].Name)
                         + Count(ErrorNames, dl.all[n].Name) = 1
                /\ Len(dl.downloaded) + Len(dl.skipped) + Len(FileErrors)
                      = Cardinality(Processed))
    /\ [](dl.pc \in {"expand", "files"} => ENABLED NextDL)
    /\ [][dl.pc = "done" => dl'.pc = "done"]_vars

\* C11 witness: a batch of three files is over in which one fetch has failed
\* and the two other files have been downloaded.
C11_Witness ==
    /\ dl.pc = "done"
    /\ Len(dl.downloaded) = 2
    /\ Len(dl.errors) = 1
    /\ dl.errors[1][1] = "Failed to download"
    /\ dl.skipped = <<>>

\* path p is the folder s or lies below it
IsUnder(p, s) == Len(p) >= Len(s) /\ SubSeq(p, 1, Len(s)) = s

\* the folder with this path and everything below it, as the store has it
Subtree(path, v) == getAllFilesInFolder(path, v, {}).files

\* allFilesToDownload has the item
InAll(item) == \E k \in 1..Len(dl.all) : dl.all[k] = item

\* C12 (as stated): when the listing of a subfolder s inside a selected folder
\* fails during the expansion, an error is recorded, and the selected folder
\* itself and everything below it that is not s or below s are still in
\* allFilesToDownload.
C12_SubtreeIsolated ==
    \A n \in 1..Len(dl.listed) :
       LET r == dl.listed[n]
           whole == Subtree(r.path, r.v)
       IN  \A s \in r.failed :
              s # r.path
                 => /\ dl.errors # <<>>
                    /\ \E k \in 1..Len(dl.all) :
                          dl.all[k].IsFolder /\ dl.all[k].Path = r.path
                    /\ \A m \in 1..Len(whole) :
                          ~IsUnder(whole[m].Path, s) => InAll(whole[m])

\* the name is that of a folder of allFilesToDownload
IsFolderName(name) ==
    \E k \in 1..Len(dl.all) : dl.all[k].IsFolder /\ dl.all[k].Name = name

\* the item is there locally after the batch: a folder as a directory, a file
\* as a file
Materialized(item) ==
    IF item.IsFolder THEN LocalPath(item.Path) \in disk.dirs
    ELSE LocalPath(item.Path) \in DOMAIN disk.files

\* C13 (as stated): when a batch with a selected folder is over and nothing
\* has failed (errors is empty), the selected folder and every folder below
\* it are local directories and every file below it is a local file at the
\* download directory joined with its remote path; no folder is in
\* downloaded.
C13_ExpansionComplete ==
    (dl.pc = "done" /\ dl.errors = <<>>)
       => /\ \A n \in 1..Len(dl.listed) :
                LET r == dl.listed[n]
                    whole == Subtree(r.path, r.v)
                IN  /\ LocalPath(r.path) \in disk.dirs
                    /\ \A m \in 1..Len(whole) : Materialized(whole[m])
          /\ \A k \in 1..Len(dl.downloaded) : ~IsFolderName(dl.downloaded[k])

\* the fetched entries that are not deleted, as items, in fetch order
Fetched ==
    LET kept == SelectSeq(load.raw, LAMBDA e : e.tag \in {"file", "folder"})
    IN  [n \in 1..Len(kept) |->
            FileItem(kept[n].Name, kept[n].PathLower, kept[n].tag = "folder")]

\* the entries of seq that are in the group of item and have its lower-case
\* name
TiedWith(seq, item) == SelectSeq(seq, LAMBDA x : Tied(x, item))

\* msg.Files is a permutation of the fetched entries that are not deleted
IsPermutation ==
    /\ Len(load.out) = Len(Fetched)
    /\ \A n \in 1..Len(Fetched) :
          Count(load.out, Fetched[n]) = Count(Fetched, Fetched[n])

\* in msg.Files every folder is before every file and each group is in
\* ascending order of lower-case name
IsOrdered ==
    \A i, j \in 1..Len(load.out) :
       i < j => /\ load.out[j].IsFolder => load.out[i].IsFolder
                /\ load.out[i].IsFolder = load.out[j].IsFolder
                      => ~StrLess(ToLower(load.out[j].Name), ToLower(load.out[i].Name))

\* C14 (as stated): the entries delivered by a listing are a permutation of
\* the fetched entries that are not deleted, folders first, each group in
\* ascending order of lower-case name, and entries of a group with equal
\* lower-case names are in their fetch order.
C14_SortRule ==
    load.pc = "out"
       => /\ IsPermutation
          /\ IsOrdered
          /\ \A n \in 1..Len(Fetched) :
                TiedWith(load.out, Fetched[n]) = TiedWith(Fetched, Fetched[n])

\* the DownloadMsg commands that the step has added to the commands in flight
NewDownloadMsgs ==
    {c \in BagToSet(inflight') :
        c.cmd = "dlmsg" /\ CopiesIn(c, inflight') > CopiesIn(c, inflight)}

\* C15: every member of selected is an index of files, in every reachable
\* state; space, when it is handled, adds the cursor's index to selected or
\* removes it and changes nothing at all when files is empty; d, when it is
\* handled with a selection, hands over exactly the entries at the selected
\* indices, each once.
C15_SelectionValid ==
    /\ [](\A i \in selected : 0 <= i /\ i < Len(files))
    /\ [][(~downloading /\ KeyMsg(" "))
             => /\ UNCHANGED <<currentPath, files, cursor, folderCache, inflight>>
                /\ files = <<>> => selected' = selected
                /\ files # <<>> =>
                      selected' = IF cursor \in selected
                                  THEN selected \ {cursor}
                                  ELSE selected \cup {cursor}]_vars
    /\ [][(~downloading /\ selected # {} /\ KeyMsg("d"))
             => /\ UNCHANGED model
                /\ \E c \in NewDownloadMsgs :
                      /\ NewDownloadMsgs = {c}
                      /\ Len(c.items) = Cardinality(selected)
                      /\ {c.items[n] : n \in 1..Len(c.items)}
                            = {files[i + 1] : i \in selected}]_vars

\* C15 witness: the last entry of a listing of three is selected and has been
\* handed to a download.
C15_Witness ==
    /\ ev = "download"
    /\ Len(files) = 3
    /\ selected = {2}
    /\ \E c \in InFlight : c.cmd = "dlmsg" /\ c.items = <<files[3]>>

\* m.folderCache has an entry for the folder shown
Cached == currentPath \in DOMAIN folderCache

\* C16 (as stated): once a listing has been delivered (files is empty before
\* the first one), the cache has an entry for currentPath and files is that
\* entry, whatever navigation, reload, cache clear and listing results came
\* before.
C16_CacheCoherent ==
    files # <<>> => Cached /\ files = folderCache[currentPath]

\* C16 (amended): whenever the cache has an entry for currentPath, files is
\* that entry; the cache has one right after every listing result and every
\* cached navigation, and only a cache clear (key C) takes it away, leaving
\* files as it was.
C16_CacheCoherentUntilClear ==
    /\ [](Cached => files = folderCache[currentPath])
    /\ [](ev \in {"FilesLoadedMsg", "cached"} => Cached)
    /\ [][(Cached /\ ~Cached') => (~downloading /\ KeyMsg("C") /\ files' = files)]_vars

\* C16 witness: a folder below the root is shown from the cache, the cache
\* having been cleared and filled again before.
C16_Witness ==
    /\ ev = "cached"
    /\ currentPath = DocsPath
    /\ Root \notin DOMAIN folderCache
    /\ files = folderCache[DocsPath]

\* C17 (as stated): right after the ErrorMsg of a failed listing fetch has
\* been handled, loading is false.
C17_FailureClearsLoading == ev = "ErrorMsg" => ~loading

\* the cache with the entry for path set to listing
WithEntry(cache, path, listing) ==
    [p \in DOMAIN cache \cup {path} |-> IF p = path THEN listing ELSE cache[p]]

\* C18: the cache changes only when a listing result is handled, which sets
\* the entry of its path to the entries delivered and leaves the others, and
\* when key C is handled, which empties it; so the cache is, path by path,
\* the last listing delivered since the last clear; and the ErrorMsg of a
\* failed listing leaves the cache as it is.
C18_CacheContent ==
    /\ [][folderCache' # folderCache
             => \/ \E c \in InFlight : \E v \in Versions :
                      /\ FilesLoadedMsg(c, v)
                      /\ folderCache' = WithEntry(folderCache, c.path,
                                                  LoadFiles(c.path, v))
                \/ ~downloading /\ KeyMsg("C") /\ folderCache' = NoCache]_vars
    /\ [](folderCache = lastListing)
    /\ [][ev' = "ErrorMsg" => folderCache' = folderCache]_vars

\* C18 witness: a listing fetch has failed while two folders are cached, one
\* of them with the later version of its listing.
C18_Witness ==
    /\ ev = "ErrorMsg"
    /\ DOMAIN folderCache = {Root, DocsPath}
    /\ folderCache[DocsPath] = LoadFiles(DocsPath, 2)

\* C19: key C, when it is handled, empties the cache and leaves currentPath,
\* files and cursor; and as long as no listing has been delivered for a path
\* since the last clear, enter on that folder and esc to that parent set
\* loading, issue one listing fetch and leave what is shown.
C19_ClearCache ==
    /\ [][(~downloading /\ KeyMsg("C"))
             => folderCache' = NoCache /\ UNCHANGED <<currentPath, files, cursor>>]_vars
    /\ [][\A p \in Paths \ DOMAIN lastListing :
             (EnterTo(p) \/ EscTo(p))
                => loading' /\ UNCHANGED shown /\ Loads' = Loads + 1]_vars

\* C19 witness: in a folder below the root, whose listing can only have been
\* reached through the root's, the root is not cached any more and esc has
\* issued a fetch for it.
C19_Witness ==
    /\ ev = "fetch"
    /\ currentPath = DocsPath
    /\ files # <<>>
    /\ folderCache = NoCache
    /\ loading
    /\ \E c \in InFlight : c.cmd = "load" /\ c.path = Root

\* C20 (as stated, for runs in which no listing fetch has failed): loading is
\* true only while a listing fetch is in flight; in particular it is false
\* once the results of the two commands of Init have been handled, in
\* either order.
C20_LoadingOnlyWhileFetching == (loading /\ error = NoError) => Loads > 0

\* C21 (as stated): downloading stays set from the handling of the
\* DownloadMsg that starts a batch until the DownloadCompleteMsg of that
\* batch is handled: while a batch is running, downloading is set.
C21_DownloadingWhileBatchRuns == Batches > 0 => downloading

====
